---- MODULE Spec2Model ----
(***************************************************************************)
(* The raw (non-transactional) client of src/raw/client.rs: a handle       *)
(* (delegate reference + optional column family), thirteen operations that *)
(* build a request, hand it to the execution delegate and shape what comes *)
(* back, and the derivation of scoped handles.                             *)
(*                                                                         *)
(* Every operation is an async fn with one suspension point, the await on  *)
(* the delegate.  The part before the await is one action (named after the *)
(* operation), the part after it is Resume.  The delegate itself is not    *)
(* part of client.rs: DelegateAny lets it answer anything of the right     *)
(* type, DelegateFaithful lets it apply the request to a partitioned store.*)
(***************************************************************************)
EXTENDS Integers, Sequences, FiniteSets, TLC

\* ---------------------------------------------------------------- bounds
MaxKey == 2
MaxVal == 2
MaxLimit == 1
MaxBatch == 2
MaxHandles == 3
MaxDelegates == 2

\* ------------------------------------------------------ program constants
MAX_RAW_KV_SCAN_LIMIT == 10240

\* ------------------------------------------------------------- data model
None == <<>>

Some(x) == <<x>>

Min(a, b) == IF a < b THEN a ELSE b

Keys == 1..MaxKey

Values == 1..MaxVal

\* The value a key-only scan carries in each pair (an empty byte string).
EmptyValue == 0

\* The store holds no value for the key.
Absent == -1

ColumnFamily == {"Default", "Lock", "Write"}

Tasks == {1, 2}

Delegates == 1..MaxDelegates

\* A KvPair is <<key, value>>.
KvPair(k, v) == <<k, v>>

\* KvPair::into_key
IntoKey(pair) == pair[1]

\* a truncation that keeps the last len elements
TruncateFront(s, len) == SubSeq(s, Len(s) - Min(len, Len(s)) + 1, Len(s))

\* Vec::truncate(len): keeps the first len elements, a no-op when len >= Len(s)
Truncate(s, len) == SubSeq(s, 1, Min(len, Len(s)))

\* .into_iter().map(KvPair::into_key).collect()
MapIntoKey(s) == [i \in 1..Len(s) |-> IntoKey(s[i])]

SeqsUpTo(S, n) == UNION {[1..m -> S] : m \in 0..n}

\* Bounds of a BoundRange.
Unbounded == [kind |-> "Unbounded", key |-> 0]

Included(k) == [kind |-> "Included", key |-> k]

Excluded(k) == [kind |-> "Excluded", key |-> k]

Bounds == {Unbounded} \cup {Included(k) : k \in Keys} \cup {Excluded(k) : k \in Keys}

BoundRange == [from : Bounds, to : Bounds]

\* ----------------------------------------------------------------- results
Ok(v) == [ok |-> TRUE, val |-> v]

Err(e) == [ok |-> FALSE, err |-> e]

Unit == "unit"

MaxScanLimitExceeded(limit, max_limit) ==
    [kind |-> "MaxScanLimitExceeded", limit |-> limit, max_limit |-> max_limit]

\* What the execution delegate may fail with.
ExecErrors ==
    {[kind |-> "Transient", limit |-> 0, max_limit |-> 0],
     [kind |-> "Rejected", limit |-> 0, max_limit |-> 0],
     [kind |-> "Transport", limit |-> 0, max_limit |-> 0]}

\* ------------------------------------------------------ request descriptors
new_raw_get_request(key, cf) == [kind |-> "RawGet", key |-> key, cf |-> cf]

new_raw_batch_get_request(keys, cf) == [kind |-> "RawBatchGet", keys |-> keys, cf |-> cf]

new_raw_put_request(key, value, cf) ==
    [kind |-> "RawPut", key |-> key, value |-> value, cf |-> cf]

new_raw_batch_put_request(pairs, cf) == [kind |-> "RawBatchPut", pairs |-> pairs, cf |-> cf]

new_raw_update_request(key, value, cf) ==
    [kind |-> "RawUpdate", key |-> key, value |-> value, cf |-> cf]

new_raw_batch_update_request(pairs, cf) ==
    [kind |-> "RawBatchUpdate", pairs |-> pairs, cf |-> cf]

new_raw_delete_request(key, cf) == [kind |-> "RawDelete", key |-> key, cf |-> cf]

new_raw_batch_delete_request(keys, cf) ==
    [kind |-> "RawBatchDelete", keys |-> keys, cf |-> cf]

new_raw_delete_range_request(range, cf) ==
    [kind |-> "RawDeleteRange", range |-> range, cf |-> cf]

new_raw_scan_request(range, limit, key_only, cf) ==
    [kind |-> "RawScan", range |-> range, limit |-> limit, key_only |-> key_only, cf |-> cf]

new_raw_batch_scan_request(ranges, each_limit, key_only, cf) ==
    [kind |-> "RawBatchScan", ranges |-> ranges, each_limit |-> each_limit,
     key_only |-> key_only, cf |-> cf]

\* RetryOptions::default_optimistic()
default_optimistic == "default_optimistic"

\* -------------------------------------------------------------------- state
VARIABLES
    handles,    \* the Client values alive: a sequence of [rpc, cf]
    task,       \* per caller: the operation it is in, and where
    inflight,   \* per delegate: the requests handed to it and not yet answered
    store,      \* the cluster's data, by column family and key
    origin,     \* history: per handle, the call that made it
    lastput     \* history: the put or delete that completed last with no write since

vars == <<handles, task, inflight, store, origin, lastput>>

\* struct Client { rpc, cf }
Client(rpc, cf) == [rpc |-> rpc, cf |-> cf]

Idle == [pc |-> "idle"]

HandleIds == DOMAIN handles

\* The delegates some handle refers to.
Connected == {handles[h].rpc : h \in HandleIds}

EmptyStore == [c \in ColumnFamily |-> [k \in Keys |-> Absent]]

NoPut == [h |-> 0, key |-> 0, val |-> Absent]

\* How a handle came to be: by connect, or by with_cf(cf) on handle from.
ByConnect == [from |-> 0, cf |-> "none"]

ByWithCf(h, cf) == [from |-> h, cf |-> cf]

\* --------------------------------------------------------- handle derivation
\* Client::new_with_config: a handle on a delegate of its own, with no column
\* family.  (When PdRpcClient::connect fails the `?` returns the error and no
\* Client exists: no state changes.)
new_with_config(rpc) == Client(rpc, None)

\* with_cf that keeps the receiver's column family
with_cf_keeps_scope(self, cf) == Client(self.rpc, self.cf)

\* Client::with_cf
with_cf(self, cf) == Client(self.rpc, Some(cf))

Connect ==
    /\ Len(handles) < MaxHandles
    /\ \E rpc \in Delegates \ Connected :
         /\ \A r \in Delegates \ Connected : rpc <= r
         /\ handles' = Append(handles, new_with_config(rpc))
    /\ origin' = Append(origin, ByConnect)
    /\ UNCHANGED <<task, inflight, store, lastput>>

WithCf(h, cf) ==
    /\ Len(handles) < MaxHandles
    /\ handles' = Append(handles, with_cf(handles[h], cf))
    /\ origin' = Append(origin, ByWithCf(h, cf))
    /\ UNCHANGED <<task, inflight, store, lastput>>

\* ------------------------------------------------- an operation up to its await
\* request.execute(self.rpc.clone(), RetryOptions::default_optimistic()).await,
\* up to the suspension: the delegate of the handle holds the request.
Execute(t, h, op, args, req) ==
    /\ task[t].pc = "idle"
    /\ task' = [task EXCEPT ![t] =
                  [pc |-> "awaiting", op |-> op, h |-> h, args |-> args,
                   req |-> req, ncalls |-> 1]]
    /\ inflight' = [inflight EXCEPT ![handles[h].rpc] =
                      @ \cup {[t |-> t, req |-> req, retry |-> default_optimistic]}]
    /\ UNCHANGED <<handles, store, origin, lastput>>

\* return Err(e) before anything is handed to the delegate
Fail(t, h, op, args, e) ==
    /\ task[t].pc = "idle"
    /\ task' = [task EXCEPT ![t] =
                  [pc |-> "done", op |-> op, h |-> h, args |-> args,
                   ncalls |-> 0, result |-> Err(e)]]
    /\ UNCHANGED <<handles, inflight, store, origin, lastput>>

\* get that asks the default partition whatever the handle's scope
GetReqUnscoped(self, key) == new_raw_get_request(key, None)

\* The request get builds.
GetReq(self, key) == new_raw_get_request(key, self.cf)

Get(t, h, key) == Execute(t, h, "get", [key |-> key], GetReq(handles[h], key))

BatchGet(t, h, keys) ==
    Execute(t, h, "batch_get", [keys |-> keys],
            new_raw_batch_get_request(keys, handles[h].cf))

\* put that asks the default partition whatever the handle's scope
PutUnscoped(t, h, key, value) ==
    Execute(t, h, "put", [key |-> key, value |-> value],
            new_raw_put_request(key, value, None))

Put(t, h, key, value) ==
    Execute(t, h, "put", [key |-> key, value |-> value],
            new_raw_put_request(key, value, handles[h].cf))

BatchPut(t, h, pairs) ==
    Execute(t, h, "batch_put", [pairs |-> pairs],
            new_raw_batch_put_request(pairs, handles[h].cf))

Update(t, h, key, value) ==
    Execute(t, h, "update", [key |-> key, value |-> value],
            new_raw_update_request(key, value, handles[h].cf))

BatchUpdate(t, h, pairs) ==
    Execute(t, h, "batch_update", [pairs |-> pairs],
            new_raw_batch_update_request(pairs, handles[h].cf))

Delete(t, h, key) ==
    Execute(t, h, "delete", [key |-> key], new_raw_delete_request(key, handles[h].cf))

BatchDelete(t, h, keys) ==
    Execute(t, h, "batch_delete", [keys |-> keys],
            new_raw_batch_delete_request(keys, handles[h].cf))

DeleteRange(t, h, range) ==
    Execute(t, h, "delete_range", [range |-> range],
            new_raw_delete_range_request(range, handles[h].cf))

\* scan_inner that leaves the column family out of its request
ScanInnerReqUnscoped(self, range, limit, key_only) ==
    new_raw_scan_request(range, limit, key_only, None)

\* The request scan_inner builds.
ScanInnerReq(self, range, limit, key_only) ==
    new_raw_scan_request(range, limit, key_only, self.cf)

\* The request batch_scan_inner builds.
BatchScanInnerReq(self, ranges, each_limit, key_only) ==
    new_raw_batch_scan_request(ranges, each_limit, key_only, self.cf)

\* scan_inner whose check lets the first limit above the cap through
ScanInnerOffByOne(t, h, op, range, limit, key_only) ==
    IF limit > MAX_RAW_KV_SCAN_LIMIT + 1
    THEN Fail(t, h, op, [range |-> range, limit |-> limit],
              MaxScanLimitExceeded(limit, MAX_RAW_KV_SCAN_LIMIT))
    ELSE Execute(t, h, op, [range |-> range, limit |-> limit],
                 ScanInnerReq(handles[h], range, limit, key_only))

\* scan_inner up to its await; op is the public operation it runs for
ScanInner(t, h, op, range, limit, key_only) ==
    IF limit > MAX_RAW_KV_SCAN_LIMIT
    THEN Fail(t, h, op, [range |-> range, limit |-> limit],
              MaxScanLimitExceeded(limit, MAX_RAW_KV_SCAN_LIMIT))
    ELSE Execute(t, h, op, [range |-> range, limit |-> limit],
                 ScanInnerReq(handles[h], range, limit, key_only))

\* batch_scan_inner up to its await
BatchScanInner(t, h, op, ranges, each_limit, key_only) ==
    IF each_limit > MAX_RAW_KV_SCAN_LIMIT
    THEN Fail(t, h, op, [ranges |-> ranges, limit |-> each_limit],
              MaxScanLimitExceeded(each_limit, MAX_RAW_KV_SCAN_LIMIT))
    ELSE Execute(t, h, op, [ranges |-> ranges, limit |-> each_limit],
                 BatchScanInnerReq(handles[h], ranges, each_limit, key_only))

Scan(t, h, range, limit) == ScanInner(t, h, "scan", range, limit, FALSE)

ScanKeys(t, h, range, limit) == ScanInner(t, h, "scan_keys", range, limit, TRUE)

BatchScan(t, h, ranges, each_limit) ==
    BatchScanInner(t, h, "batch_scan", ranges, each_limit, FALSE)

BatchScanKeys(t, h, ranges, each_limit) ==
    BatchScanInner(t, h, "batch_scan_keys", ranges, each_limit, TRUE)

\* ------------------------------------------------ an operation after its await
\* scan_inner without the truncation
ScanInnerRetUntruncated(res, limit) == res

\* scan_inner: res.map(|mut s| { s.truncate(limit as usize); s })
ScanInnerRet(res, limit) == IF res.ok THEN Ok(Truncate(res.val, limit)) ELSE res

\* batch_scan_inner that truncates as scan_inner does
BatchScanInnerRetTruncated(res, each_limit) ==
    IF res.ok THEN Ok(Truncate(res.val, each_limit)) ELSE res

\* batch_scan_inner: the awaited result is the function's value
BatchScanInnerRet(res, each_limit) == res

\* scan: the value of scan_inner
ScanRet(res, limit) == ScanInnerRet(res, limit)

\* scan_keys that turns a failure into an empty result
ScanKeysRetSwallows(res, limit) ==
    LET inner == ScanInnerRet(res, limit)
    IN  IF inner.ok THEN Ok(MapIntoKey(inner.val)) ELSE Ok(<<>>)

\* scan_keys that projects what the delegate returned, not what scan_inner did
ScanKeysRetUntruncated(res, limit) ==
    IF res.ok THEN Ok(MapIntoKey(res.val)) ELSE res

\* scan_keys: Ok(self.scan_inner(..).await?.into_iter().map(KvPair::into_key).collect())
ScanKeysRet(res, limit) ==
    LET inner == ScanInnerRet(res, limit)
    IN  IF inner.ok THEN Ok(MapIntoKey(inner.val)) ELSE inner

\* batch_scan: the value of batch_scan_inner
BatchScanRet(res, each_limit) == BatchScanInnerRet(res, each_limit)

\* batch_scan_keys: the same as scan_keys over batch_scan_inner
BatchScanKeysRet(res, each_limit) ==
    LET inner == BatchScanInnerRet(res, each_limit)
    IN  IF inner.ok THEN Ok(MapIntoKey(inner.val)) ELSE inner

\* What the operation returns to its caller once the delegate answered res:
\* the scans shape it, every other operation returns it as it is.
Return(op, args, res) ==
    CASE op = "scan" -> ScanRet(res, args.limit)
      [] op = "scan_keys" -> ScanKeysRet(res, args.limit)
      [] op = "batch_scan" -> BatchScanRet(res, args.limit)
      [] op = "batch_scan_keys" -> BatchScanKeysRet(res, args.limit)
      [] OTHER -> res

\* The await completes with res: the rest of the async fn runs and returns.
Resume(t, res) ==
    /\ task[t].pc = "awaiting"
    /\ task' = [task EXCEPT ![t] =
                  [pc |-> "done", op |-> @.op, h |-> @.h, args |-> @.args,
                   req |-> @.req, ncalls |-> @.ncalls, resp |-> res,
                   after |-> lastput, result |-> Return(@.op, @.args, res)]]
    /\ inflight' = [inflight EXCEPT ![handles[task[t].h].rpc] =
                      {m \in @ : m.t # t}]
    /\ UNCHANGED <<handles, origin>>

\* The caller takes the result and is free to call again.
Take(t) ==
    /\ task[t].pc = "done"
    /\ task' = [task EXCEPT ![t] = Idle]
    /\ UNCHANGED <<handles, inflight, store, origin, lastput>>

\* --------------------------------------------- a delegate that answers anything
PairsAny == {KvPair(k, v) : k \in Keys, v \in Values \cup {EmptyValue}}

PairsAnySeqs == SeqsUpTo(PairsAny, MaxLimit + 1)

\* The successful payloads of the type the request's operation returns; a
\* sequence of pairs may be longer than any of the small limits.
Payloads(req) ==
    CASE req.kind = "RawGet" -> {None} \cup {Some(v) : v \in Values}
      [] req.kind \in {"RawBatchGet", "RawScan", "RawBatchScan"} ->
           PairsAnySeqs
      [] OTHER -> {Unit}

Responses(req) == {Ok(p) : p \in Payloads(req)} \cup {Err(e) : e \in ExecErrors}

DelegateAny(t) ==
    /\ task[t].pc = "awaiting"
    /\ UNCHANGED <<store, lastput>>
    /\ \E res \in Responses(task[t].req) : Resume(t, res)

\* The same delegate with one success and one failure per request.
BriefResponses(req) ==
    {Ok(CASE req.kind = "RawGet" -> None
          [] req.kind \in {"RawBatchGet", "RawScan", "RawBatchScan"} -> <<>>
          [] OTHER -> Unit),
     Err([kind |-> "Transient", limit |-> 0, max_limit |-> 0])}

DelegateBrief(t) ==
    /\ task[t].pc = "awaiting"
    /\ UNCHANGED <<store, lastput>>
    /\ \E res \in BriefResponses(task[t].req) : Resume(t, res)

\* ------------------------- a delegate that applies the request to the store
\* No column family means the default partition.
Partition(cf) == IF cf = None THEN "Default" ELSE cf[1]

InRange(k, range) ==
    /\ CASE range.from.kind = "Included" -> range.from.key <= k
         [] range.from.kind = "Excluded" -> range.from.key < k
         [] OTHER -> TRUE
    /\ CASE range.to.kind = "Included" -> k <= range.to.key
         [] range.to.kind = "Excluded" -> k < range.to.key
         [] OTHER -> TRUE

RECURSIVE Ascending(_)
Ascending(S) ==
    IF S = {} THEN <<>>
    ELSE LET m == CHOOSE x \in S : \A y \in S : x <= y
         IN  <<m>> \o Ascending(S \ {m})

\* The first n pairs of the partition in the range, by ascending key.
ScanPart(part, range, n, key_only) ==
    LET ks == Truncate(Ascending({k \in Keys : part[k] # Absent /\ InRange(k, range)}), n)
    IN  [i \in 1..Len(ks) |->
           KvPair(ks[i], IF key_only THEN EmptyValue ELSE part[ks[i]])]

RECURSIVE Flatten(_)
Flatten(ss) == IF ss = <<>> THEN <<>> ELSE Head(ss) \o Flatten(Tail(ss))

RECURSIVE PutAll(_, _)
PutAll(part, pairs) ==
    IF pairs = <<>> THEN part
    ELSE PutAll([part EXCEPT ![Head(pairs)[1]] = Head(pairs)[2]], Tail(pairs))

Range(seq) == {seq[i] : i \in DOMAIN seq}

\* The store once the request is applied.
Apply(req, st) ==
    LET p == Partition(req.cf)
    IN  CASE req.kind \in {"RawPut", "RawUpdate"} ->
               [st EXCEPT ![p][req.key] = req.value]
          [] req.kind \in {"RawBatchPut", "RawBatchUpdate"} ->
               [st EXCEPT ![p] = PutAll(@, req.pairs)]
          [] req.kind = "RawDelete" -> [st EXCEPT ![p][req.key] = Absent]
          [] req.kind = "RawBatchDelete" ->
               [st EXCEPT ![p] = [k \in Keys |-> IF k \in Range(req.keys) THEN Absent ELSE @[k]]]
          [] req.kind = "RawDeleteRange" ->
               [st EXCEPT ![p] = [k \in Keys |-> IF InRange(k, req.range) THEN Absent ELSE @[k]]]
          [] OTHER -> st

\* What the request may successfully return on the store.  A scan returns the
\* pairs up to its limit, or more of them (a range over several regions).
Answers(req, st) ==
    LET part == st[Partition(req.cf)]
    IN  CASE req.kind = "RawGet" ->
               {IF part[req.key] = Absent THEN None ELSE Some(part[req.key])}
          [] req.kind = "RawBatchGet" ->
               {ScanPart([k \in Keys |-> IF k \in Range(req.keys) THEN part[k] ELSE Absent],
                         [from |-> Unbounded, to |-> Unbounded], MaxKey, FALSE)}
          [] req.kind = "RawScan" ->
               {ScanPart(part, req.range, n, req.key_only) :
                  n \in {req.limit, req.limit + 1, MaxKey}}
          [] req.kind = "RawBatchScan" ->
               {Flatten([i \in DOMAIN req.ranges |->
                           ScanPart(part, req.ranges[i], n, req.key_only)]) :
                  n \in {req.each_limit, req.each_limit + 1, MaxKey}}
          [] OTHER -> {Unit}

\* Success applies the request; a failure may or may not have applied it.
Outcomes(req, st) ==
    {[res |-> Ok(p), store |-> Apply(req, st)] : p \in Answers(req, st)}
    \cup {[res |-> Err(e), store |-> s] : e \in ExecErrors, s \in {st, Apply(req, st)}}

DelegateFaithful(t) ==
    /\ task[t].pc = "awaiting"
    /\ \E out \in Outcomes(task[t].req, store) :
         /\ store' = out.store
         /\ Resume(t, out.res)

\* Whether the request writes, and whether it may write key k.
Writes(req) ==
    req.kind \in {"RawPut", "RawUpdate", "RawBatchPut", "RawBatchUpdate",
                  "RawDelete", "RawBatchDelete", "RawDeleteRange"}

Touches(req, k) ==
    CASE req.kind \in {"RawPut", "RawUpdate", "RawDelete"} -> req.key = k
      [] req.kind \in {"RawBatchPut", "RawBatchUpdate"} ->
           \E i \in DOMAIN req.pairs : req.pairs[i][1] = k
      [] req.kind = "RawBatchDelete" -> k \in Range(req.keys)
      [] req.kind = "RawDeleteRange" -> TRUE
      [] OTHER -> FALSE

\* History: the put or delete that completed successfully, until another write
\* that may touch its key completes (on any handle, with any outcome).
TrackPut(t) ==
    lastput' =
      IF task'[t].pc = "done" /\ task'[t].result.ok /\ task[t].op \in {"put", "delete"}
      THEN [h |-> task[t].h, key |-> task[t].args.key,
            val |-> IF task[t].op = "put" THEN task[t].args.value ELSE Absent]
      ELSE IF Writes(task[t].req) /\ Touches(task[t].req, lastput.key)
           THEN NoPut
           ELSE lastput

\* ------------------------------------------------------------------ inputs
\* limit: u32.  The small limits, the cap, the first limit above it, and two
\* larger ones (TLC's integers end at 2^31 - 1; the code only compares
\* the limit with the cap and truncates to it).
Limits == (0..MaxLimit) \cup
          {MAX_RAW_KV_SCAN_LIMIT, MAX_RAW_KV_SCAN_LIMIT + 1, 20000, 2147483647}

FullRange == [from |-> Unbounded, to |-> Unbounded]

SomeRanges == {FullRange, [from |-> Included(1), to |-> Excluded(MaxKey)]}

RangeLists == {<<>>, <<FullRange>>,
               <<[from |-> Included(1), to |-> Excluded(MaxKey)], FullRange>>}

PairsIn == {KvPair(k, v) : k \in Keys, v \in Values}

KeyLists == SeqsUpTo(Keys, MaxBatch)

PairLists == SeqsUpTo(PairsIn, MaxBatch)

\* The handles caller t may call on now: none while it is inside a call.
Callable(t) == IF task[t].pc = "idle" THEN HandleIds ELSE {}

\* ------------------------------------------ Spec: one caller, any delegate
\* A handle from connect and one derived from it.
Init ==
    /\ handles = <<new_with_config(1), with_cf(new_with_config(1), "Write")>>
    /\ task = [t \in Tasks |-> Idle]
    /\ inflight = [d \in Delegates |-> {}]
    /\ store = EmptyStore
    /\ origin = <<ByConnect, ByWithCf(1, "Write")>>
    /\ lastput = NoPut

Next ==
    \/ \E h \in Callable(1), key \in Keys : Get(1, h, key)
    \/ \E h \in Callable(1), keys \in KeyLists : BatchGet(1, h, keys)
    \/ \E h \in Callable(1), key \in Keys, value \in Values : Put(1, h, key, value)
    \/ \E h \in Callable(1), pairs \in PairLists : BatchPut(1, h, pairs)
    \/ \E h \in Callable(1), key \in Keys, value \in Values : Update(1, h, key, value)
    \/ \E h \in Callable(1), pairs \in PairLists : BatchUpdate(1, h, pairs)
    \/ \E h \in Callable(1), key \in Keys : Delete(1, h, key)
    \/ \E h \in Callable(1), keys \in KeyLists : BatchDelete(1, h, keys)
    \/ \E h \in Callable(1), range \in SomeRanges : DeleteRange(1, h, range)
    \/ \E h \in Callable(1), range \in SomeRanges, limit \in Limits : Scan(1, h, range, limit)
    \/ \E h \in Callable(1), range \in SomeRanges, limit \in Limits :
         ScanKeys(1, h, range, limit)
    \/ \E h \in Callable(1), ranges \in RangeLists, each_limit \in Limits :
         BatchScan(1, h, ranges, each_limit)
    \/ \E h \in Callable(1), ranges \in RangeLists, each_limit \in Limits :
         BatchScanKeys(1, h, ranges, each_limit)
    \/ DelegateAny(1)
    \/ Take(1)

Spec == Init /\ [][Next]_vars

\* --------------- SpecConc: two callers, handles derived while calls are in flight
InitConc ==
    /\ handles = <<new_with_config(1)>>
    /\ task = [t \in Tasks |-> Idle]
    /\ inflight = [d \in Delegates |-> {}]
    /\ store = EmptyStore
    /\ origin = <<ByConnect>>
    /\ lastput = NoPut

\* Caller 1 runs every operation, caller 2 runs get, each on any handle alive.
NextConc ==
    \/ Connect
    \/ \E h \in HandleIds, cf \in ColumnFamily : WithCf(h, cf)
    \/ \E h \in Callable(1) : Get(1, h, 1)
    \/ \E h \in Callable(1) : BatchGet(1, h, <<1>>)
    \/ \E h \in Callable(1) : Put(1, h, 1, 1)
    \/ \E h \in Callable(1) : BatchPut(1, h, <<KvPair(1, 1)>>)
    \/ \E h \in Callable(1) : Update(1, h, 1, 1)
    \/ \E h \in Callable(1) : BatchUpdate(1, h, <<KvPair(1, 1)>>)
    \/ \E h \in Callable(1) : Delete(1, h, 1)
    \/ \E h \in Callable(1) : BatchDelete(1, h, <<1>>)
    \/ \E h \in Callable(1) : DeleteRange(1, h, FullRange)
    \/ \E h \in Callable(1), limit \in {MaxLimit, MAX_RAW_KV_SCAN_LIMIT + 1} :
         Scan(1, h, FullRange, limit)
    \/ \E h \in Callable(1), limit \in {MaxLimit, MAX_RAW_KV_SCAN_LIMIT + 1} :
         ScanKeys(1, h, FullRange, limit)
    \/ \E h \in Callable(1), limit \in {MaxLimit, MAX_RAW_KV_SCAN_LIMIT + 1} :
         BatchScan(1, h, <<FullRange>>, limit)
    \/ \E h \in Callable(1), limit \in {MaxLimit, MAX_RAW_KV_SCAN_LIMIT + 1} :
         BatchScanKeys(1, h, <<FullRange>>, limit)
    \/ \E h \in Callable(2) : Get(2, h, MaxKey)
    \/ \E t \in Tasks : DelegateBrief(t)
    \/ \E t \in Tasks : Take(t)

SpecConc == InitConc /\ [][NextConc]_vars

\* ----------------- SpecScan: one caller, scans of a store the delegate applies
\* A handle from connect and one derived for the default column family.
InitScan ==
    /\ handles = <<new_with_config(1), with_cf(new_with_config(1), "Default")>>
    /\ task = [t \in Tasks |-> Idle]
    /\ inflight = [d \in Delegates |-> {}]
    /\ store = EmptyStore
    /\ origin = <<ByConnect, ByWithCf(1, "Default")>>
    /\ lastput = NoPut

\* The limits that pass the check of scan_inner.
ScanLimits == (0..MaxLimit) \cup {MAX_RAW_KV_SCAN_LIMIT}

NextScan ==
    \/ \E h \in Callable(1), key \in Keys, value \in Values : Put(1, h, key, value)
    \/ \E h \in Callable(1), key \in Keys : Delete(1, h, key)
    \/ \E h \in Callable(1), range \in BoundRange, limit \in ScanLimits :
         Scan(1, h, range, limit)
    \/ \E h \in Callable(1), range \in BoundRange, limit \in ScanLimits :
         ScanKeys(1, h, range, limit)
    \/ DelegateFaithful(1) /\ UNCHANGED lastput
    \/ Take(1)

SpecScan == InitScan /\ [][NextScan]_vars

\* --------- SpecStore: one caller, reads and writes of a store with partitions
InitStore ==
    /\ handles = <<new_with_config(1), with_cf(new_with_config(1), "Default"),
                   with_cf(new_with_config(1), "Write")>>
    /\ task = [t \in Tasks |-> Idle]
    /\ inflight = [d \in Delegates |-> {}]
    /\ store = EmptyStore
    /\ origin = <<ByConnect, ByWithCf(1, "Default"), ByWithCf(1, "Write")>>
    /\ lastput = NoPut

EndKeys == {1, MaxKey}

NextStore ==
    \/ \E h \in Callable(1), key \in EndKeys : Get(1, h, key)
    \/ \E h \in Callable(1), key \in EndKeys, value \in Values : Put(1, h, key, value)
    \/ \E h \in Callable(1), key \in EndKeys, value \in Values :
         BatchPut(1, h, <<KvPair(key, value)>>)
    \/ \E h \in Callable(1), key \in EndKeys, value \in Values : Update(1, h, key, value)
    \/ \E h \in Callable(1), key \in EndKeys : Delete(1, h, key)
    \/ \E h \in Callable(1), key \in EndKeys : BatchDelete(1, h, <<key>>)
    \/ \E h \in Callable(1), key \in EndKeys :
         DeleteRange(1, h, [from |-> Included(key), to |-> Included(key)])
    \/ DelegateFaithful(1) /\ TrackPut(1)
    \/ Take(1)

SpecStore == InitStore /\ [][NextStore]_vars

\* ------------------------------------------------------------------ claims
ScanOps == {"scan", "scan_keys", "batch_scan", "batch_scan_keys"}

Called(t) == task[t].pc # "idle"

Returned(t) == task[t].pc = "done"

\* The call ended with an answer of the delegate.
Answered(t) == Returned(t) /\ task[t].ncalls = 1

\* The requests of caller t that delegate d holds.
HeldBy(d, t) == {m \in inflight[d] : m.t = t}

\* C1: a scan, scan_keys, batch_scan or batch_scan_keys with a limit above 10240
\* returns MaxScanLimitExceeded with that limit and max_limit 10240, and hands
\* no request to any delegate.
C1_LimitExceeded ==
    \A t \in Tasks :
      (Called(t) /\ task[t].op \in ScanOps /\ task[t].args.limit > 10240) =>
        /\ Returned(t)
        /\ task[t].result = Err([kind |-> "MaxScanLimitExceeded",
                                 limit |-> task[t].args.limit, max_limit |-> 10240])
        /\ task[t].ncalls = 0
        /\ \A d \in Delegates : HeldBy(d, t) = {}

C1_Witness ==
    \E t \in Tasks :
      /\ Returned(t)
      /\ task[t].op = "batch_scan_keys"
      /\ task[t].args.limit = 10241
      /\ ~task[t].result.ok
      /\ task[t].result.err.limit = 10241

\* C2: with a limit of at most 10240, what scan and scan_keys return on success
\* is no longer than the limit, whatever the delegate returned.
C2_AtMostLimit ==
    \A t \in Tasks :
      (Answered(t) /\ task[t].op \in {"scan", "scan_keys"} /\ task[t].result.ok) =>
        Len(task[t].result.val) <= task[t].args.limit

C2_Witness ==
    \E t \in Tasks :
      /\ Answered(t)
      /\ task[t].op = "scan"
      /\ task[t].resp.ok
      /\ Len(task[t].resp.val) > task[t].args.limit
      /\ task[t].result.ok
      /\ Len(task[t].result.val) = task[t].args.limit

\* C3 as stated: when the delegate returns more pairs than each_limit, batch_scan
\* and batch_scan_keys return exactly each_limit elements.
C3_Original ==
    \A t \in Tasks :
      (/\ Answered(t)
       /\ task[t].op \in {"batch_scan", "batch_scan_keys"}
       /\ task[t].resp.ok
       /\ Len(task[t].resp.val) > task[t].args.limit) =>
        Len(task[t].result.val) = task[t].args.limit

\* C3 as amended: batch_scan returns the delegate's sequence as it is, and
\* batch_scan_keys the key of every pair of it, also when it is longer than
\* each_limit.
C3_NotTruncated ==
    \A t \in Tasks :
      (Answered(t) /\ task[t].resp.ok) =>
        /\ task[t].op = "batch_scan" => task[t].result = Ok(task[t].resp.val)
        /\ task[t].op = "batch_scan_keys" =>
             /\ task[t].result.ok
             /\ Len(task[t].result.val) = Len(task[t].resp.val)
             /\ \A i \in 1..Len(task[t].resp.val) :
                  task[t].result.val[i] = task[t].resp.val[i][1]

C3_Witness ==
    \E t \in Tasks :
      /\ Answered(t)
      /\ task[t].op = "batch_scan"
      /\ task[t].resp.ok
      /\ Len(task[t].resp.val) > task[t].args.limit
      /\ Len(task[t].result.val) > task[t].args.limit

\* C7: an operation that passes its local check hands exactly one request to
\* the delegate of its handle, and when the delegate fails it returns that
\* failure as it is, with nothing handed over again.
C7_OnceAndPassThrough ==
    \A t \in Tasks :
      /\ task[t].pc = "awaiting" =>
           /\ task[t].ncalls = 1
           /\ Cardinality(HeldBy(handles[task[t].h].rpc, t)) = 1
           /\ \A d \in Delegates \ {handles[task[t].h].rpc} : HeldBy(d, t) = {}
      /\ (Returned(t) /\ ~(task[t].op \in ScanOps /\ task[t].args.limit > 10240)) =>
           /\ task[t].ncalls = 1
           /\ \A d \in Delegates : HeldBy(d, t) = {}
           /\ ~task[t].resp.ok => task[t].result = task[t].resp

C7_Witness ==
    \E t \in Tasks :
      /\ Answered(t)
      /\ task[t].op = "scan_keys"
      /\ ~task[t].resp.ok
      /\ task[t].result = task[t].resp
      /\ task[t].result.err.kind = "Transport"

\* C10: with a limit of at most 10240 scan returns the first min(limit, length)
\* elements of what the delegate returned, in its order (all of it when it is no
\* longer than the limit), and scan_keys returns the keys of that prefix.
C10_Prefix ==
    \A t \in Tasks :
      (Answered(t) /\ task[t].op \in {"scan", "scan_keys"} /\ task[t].resp.ok) =>
        LET s == task[t].resp.val
            n == IF task[t].args.limit < Len(s) THEN task[t].args.limit ELSE Len(s)
        IN  /\ task[t].result.ok
            /\ Len(task[t].result.val) = n
            /\ \A i \in 1..n :
                 task[t].result.val[i] = IF task[t].op = "scan" THEN s[i] ELSE s[i][1]
            /\ (task[t].op = "scan" /\ Len(s) <= task[t].args.limit) =>
                 task[t].result.val = s

C10_Witness ==
    \E t \in Tasks :
      /\ Answered(t)
      /\ task[t].op = "scan_keys"
      /\ task[t].args.limit = 1
      /\ task[t].resp.ok
      /\ Len(task[t].resp.val) = 2
      /\ task[t].resp.val[1][1] # task[t].resp.val[2][1]
      /\ task[t].result = Ok(<<task[t].resp.val[1][1]>>)

\* C5: with_cf(cf) on a handle yields a new handle on the receiver's delegate
\* with exactly the column family cf, and no step (a derivation from any handle
\* included) changes or removes a handle there is.
C5_Derivation ==
    [][/\ \A h \in DOMAIN handles : h \in DOMAIN handles' /\ handles'[h] = handles[h]
       /\ \A n \in DOMAIN handles' \ DOMAIN handles :
            origin'[n].from # 0 =>
              /\ origin'[n].from \in DOMAIN handles
              /\ handles'[n].rpc = handles[origin'[n].from].rpc
              /\ handles'[n].cf = <<origin'[n].cf>>]_vars

\* A handle derived from a derived handle of another scope, the first handle
\* still unscoped, and a call in flight on the middle one.
C5_Witness ==
    /\ Len(handles) = 3
    /\ origin[2].from = 1
    /\ origin[3].from = 2
    /\ handles[1].cf = <<>>
    /\ handles[2].cf = <<"Write">>
    /\ handles[3].cf = <<"Lock">>
    /\ handles[3].rpc = handles[1].rpc
    /\ task[1].pc = "awaiting"
    /\ task[1].h = 2

\* C6: in every interleaving, a request handed to a delegate carries the column
\* family of the handle the operation was called on (none for a handle made by
\* connect) and goes to that handle's delegate, and no step of an operation
\* changes a handle.
C6_ScopeOfRequest ==
    [][/\ \A d \in Delegates : \A m \in inflight'[d] :
            /\ task'[m.t].pc = "awaiting"
            /\ task'[m.t].req = m.req
            /\ m.req.cf = handles'[task'[m.t].h].cf
            /\ d = handles'[task'[m.t].h].rpc
            /\ origin'[task'[m.t].h].from = 0 => m.req.cf = <<>>
       /\ \A t \in Tasks :
            task'[t].pc = "awaiting" =>
              \E m \in inflight'[handles'[task'[t].h].rpc] : m.t = t
       /\ task' # task => handles' = handles]_vars

\* Two calls in flight at once, one on a scoped handle and one on the handle it
\* was derived from.
C6_Witness ==
    /\ task[1].pc = "awaiting"
    /\ task[2].pc = "awaiting"
    /\ task[1].op = "batch_scan_keys"
    /\ origin[task[1].h].from = task[2].h
    /\ task[1].req.cf = <<"Lock">>
    /\ task[2].req.cf = <<>>
    /\ Cardinality(inflight[handles[task[1].h].rpc]) = 2

\* What get(key) on the handle yields from the store st when the delegate answers.
View(self, key, st) ==
    Return("get", [key |-> key], Ok(CHOOSE p \in Answers(GetReq(self, key), st) : TRUE))

\* C4: when scan_keys(range, limit) returns, it returns the keys of the pairs
\* that scan(range, limit) on the same handle returns from the same store, in
\* the same order and number, whichever of its answers the delegate gives.
C4_KeysOfScan ==
    [][\A t \in Tasks :
         (/\ task[t].pc = "awaiting"
          /\ task[t].op = "scan_keys"
          /\ task'[t].pc = "done"
          /\ task'[t].result.ok) =>
           \A p \in Answers(ScanInnerReq(handles[task[t].h], task[t].args.range,
                                         task[t].args.limit, FALSE), store) :
             LET pairs == ScanRet(Ok(p), task[t].args.limit).val
             IN  /\ Len(task'[t].result.val) = Len(pairs)
                 /\ \A i \in 1..Len(pairs) : task'[t].result.val[i] = pairs[i][1]]_vars

\* scan_keys cut an answer of two keys down to the limit of one.
C4_Witness ==
    \E t \in Tasks :
      /\ Answered(t)
      /\ task[t].op = "scan_keys"
      /\ task[t].args.limit = 1
      /\ task[t].resp.ok
      /\ Len(task[t].resp.val) = 2
      /\ task[t].result = Ok(<<1>>)
      /\ store["Default"][1] # Absent
      /\ store["Default"][2] # Absent

\* C8: a get(k) that the delegate answers, after a successful put(k, v) or
\* delete(k) on the same handle and no write to k completed in between, yields
\* v after the put and no value after the delete.
C8_RoundTrip ==
    \A t \in Tasks :
      (/\ Answered(t)
       /\ task[t].op = "get"
       /\ task[t].resp.ok
       /\ task[t].after.h = task[t].h
       /\ task[t].after.key = task[t].args.key) =>
        task[t].result =
          Ok(IF task[t].after.val = Absent THEN <<>> ELSE <<task[t].after.val>>)

\* A get on the handle scoped to Write that follows a put on it.
C8_Witness ==
    \E t \in Tasks :
      /\ Answered(t)
      /\ task[t].op = "get"
      /\ handles[task[t].h].cf = <<"Write">>
      /\ task[t].after.h = task[t].h
      /\ task[t].after.key = task[t].args.key
      /\ task[t].after.val = 2
      /\ task[t].result = Ok(<<2>>)

\* C9: when put(k, v) succeeds on a handle made by with_cf(c), c not the default
\* partition, what get(k) yields on every handle made by connect is what it
\* yielded before, and get(k) on every handle made by with_cf(c) yields v.
C9_Isolation ==
    [][\A t \in Tasks :
         (/\ task[t].pc = "awaiting"
          /\ task[t].op = "put"
          /\ task'[t].pc = "done"
          /\ task'[t].result.ok
          /\ origin[task[t].h].from # 0
          /\ origin[task[t].h].cf # "Default") =>
           \A g \in DOMAIN handles :
             /\ origin[g].from = 0 =>
                  View(handles[g], task[t].args.key, store')
                    = View(handles[g], task[t].args.key, store)
             /\ (origin[g].from # 0 /\ origin[g].cf = origin[task[t].h].cf) =>
                  View(handles[g], task[t].args.key, store')
                    = Ok(<<task[t].args.value>>)]_vars

\* After a put on the handle scoped to Write, the handle made by connect has
\* no value for the key and the scoped handle has the value put.
C9_Witness ==
    \E t \in Tasks :
      /\ Answered(t)
      /\ task[t].op = "put"
      /\ task[t].result.ok
      /\ origin[task[t].h].cf = "Write"
      /\ lastput.h = task[t].h
      /\ View(handles[1], task[t].args.key, store) = Ok(<<>>)
      /\ View(handles[task[t].h], task[t].args.key, store) = Ok(<<task[t].args.value>>)

====
